---- MODULE Spec2Model ----
(***************************************************************************)
(* Model of the on_job task tracker: the Task record codec                 *)
(* (src/src/task_tracker/task/mod.rs) and the plain-text task store        *)
(* (src/src/task_tracker/plain_text_task_tracker.rs).                      *)
(*                                                                         *)
(* Text is modelled as a sequence of one-character strings, so that        *)
(* trimming, splitting and joining are computed as the code computes them. *)
(* Option<T> is a sequence of length 0 (None) or 1 (Some(x)).              *)
(* A DateTime<Utc> is the number of seconds after 2025-03-17T22:00:00Z.    *)
(***************************************************************************)
EXTENDS Integers, Sequences, FiniteSets, TLC

VARIABLES
    input,      \* codec: the value handed to the codec (a Task or a line)
    output,     \* codec: what the codec returned for it
    file,       \* store: content of the backing file, None when it is absent
    last,       \* store: the last operation, its arguments and its result
    adds,       \* store: number of add_task calls so far
    procs,      \* store: the processes that run at the same time
    database    \* legacy: the items of the DataBase and the last call on it

vars == <<input, output, file, last, adds, procs, database>>

-----------------------------------------------------------------------------
(* Bounds *)

\* largest deadline (seconds after the base instant) of a generated task
MaxDeadline == 2
\* largest number of '|'-separated fields of a generated line
MaxFields == 5
\* largest number of lines of a generated backing file
MaxLines == 2
\* largest number of add_task calls in one run of the store
MaxAdds == 1
\* largest index handed to complete_task / delete_task
MaxId == 3
\* largest number of calls on one legacy DataBase
MaxCalls == 4

-----------------------------------------------------------------------------
(* Text primitives (Rust str methods used by the code) *)

None == <<>>
Some(x) == <<x>>

\* char::is_whitespace, over the characters that occur
IsWhite(c) == c \in {" ", "\t", "\n", "\r"}

RECURSIVE trim_start(_)
trim_start(s) ==
    IF s = <<>> THEN s
    ELSE IF IsWhite(Head(s)) THEN trim_start(Tail(s)) ELSE s

RECURSIVE trim_end(_)
trim_end(s) ==
    IF s = <<>> THEN s
    ELSE IF IsWhite(s[Len(s)]) THEN trim_end(SubSeq(s, 1, Len(s) - 1)) ELSE s

\* str::trim
trim(s) == trim_end(trim_start(s))

RECURSIVE trim_start_matches(_, _)
trim_start_matches(s, c) ==
    IF s = <<>> THEN s
    ELSE IF Head(s) = c THEN trim_start_matches(Tail(s), c) ELSE s

RECURSIVE trim_end_matches(_, _)
trim_end_matches(s, c) ==
    IF s = <<>> THEN s
    ELSE IF s[Len(s)] = c THEN trim_end_matches(SubSeq(s, 1, Len(s) - 1), c)
         ELSE s

\* str::trim_matches(char): strips every leading and trailing occurrence
trim_matches(s, c) == trim_end_matches(trim_start_matches(s, c), c)

Min(S) == CHOOSE x \in S : \A y \in S : x <= y

\* every position of s at which pat occurs
occurrences(s, pat) ==
    {i \in 1..(Len(s) - Len(pat) + 1) :
        s[i] = pat[1] /\ SubSeq(s, i, i + Len(pat) - 1) = pat}

\* the pieces of s from position start on, cut at the first occurrence at or
\* after start and then at the first one behind it that does not overlap
RECURSIVE split_at(_, _, _, _)
split_at(s, n, occ, start) ==
    LET later == {i \in occ : i >= start}
    IN  IF later = {} THEN <<SubSeq(s, start, Len(s))>>
        ELSE <<SubSeq(s, start, Min(later) - 1)>>
             \o split_at(s, n, occ, Min(later) + n)

\* str::split(pattern): the pieces between non-overlapping occurrences of a
\* non-empty pattern, scanning left to right; never empty
split(s, pat) == split_at(s, Len(pat), occurrences(s, pat), 1)

\* [String]::join(sep)
RECURSIVE join(_, _)
join(list, sep) ==
    IF list = <<>> THEN <<>>
    ELSE IF Len(list) = 1 THEN list[1]
    ELSE list[1] \o sep \o join(Tail(list), sep)

PIPE == <<"|">>
COMMA == <<",">>
COMMA_SPACE == <<",", " ">>
SPACE == <<" ">>
NEWLINE == <<"\n">>
TRUE_STR == <<"t", "r", "u", "e">>
FALSE_STR == <<"f", "a", "l", "s", "e">>

\* bool as Display prints it
bool_to_string(b) == IF b THEN TRUE_STR ELSE FALSE_STR

\* str::parse::<bool>: exactly "true" or "false", anything else is an error
parse_bool(s) ==
    IF s = TRUE_STR THEN [ok |-> TRUE, val |-> TRUE]
    ELSE IF s = FALSE_STR THEN [ok |-> TRUE, val |-> FALSE]
    ELSE [ok |-> FALSE, err |-> "ParseBool"]

-----------------------------------------------------------------------------
(* RFC 3339 timestamps, over the instants 2025-03-17T22:00:00Z .. +9s *)

RFC_PREFIX ==
    <<"2", "0", "2", "5", "-", "0", "3", "-", "1", "7", "T",
      "2", "2", ":", "0", "0", ":", "0">>
UTC_OFFSET == <<"+", "0", "0", ":", "0", "0">>
ZULU == <<"Z">>
DIGITS == <<"0", "1", "2", "3", "4", "5", "6", "7", "8", "9">>

\* DateTime<Utc>::to_rfc3339: always printed with the +00:00 offset
to_rfc3339(d) == RFC_PREFIX \o <<DIGITS[d + 1]>> \o UTC_OFFSET

\* DateTime::parse_from_rfc3339 followed by to_utc: the text must be a whole
\* timestamp; "Z" and "+00:00" name the same offset
parse_from_rfc3339(s) ==
    LET n == Len(RFC_PREFIX)
        wellFormed ==
            /\ Len(s) > n + 1
            /\ SubSeq(s, 1, n) = RFC_PREFIX
            /\ \E d \in 1..10 : s[n + 1] = DIGITS[d]
            /\ SubSeq(s, n + 2, Len(s)) \in {UTC_OFFSET, ZULU}
    IN  IF wellFormed
        THEN [ok |-> TRUE,
              val |-> (CHOOSE d \in 1..10 : s[n + 1] = DIGITS[d]) - 1]
        ELSE [ok |-> FALSE, err |-> "InvalidDateFormat"]

-----------------------------------------------------------------------------
(* Task and its codec *)

\* Task::new
Task_new(name, tags, deadline) ==
    [name |-> name, tags |-> tags, deadline |-> deadline, complete |-> FALSE]

\* Task::complete
Task_complete(task) == [task EXCEPT !.complete = TRUE]

\* Task::export_deadline
export_deadline(task) == to_rfc3339(task.deadline)

\* the tags column as Display prints it: joined with ", ", empty when None
tags_to_string(tags) == IF tags = None THEN <<>> ELSE join(tags[1], COMMA_SPACE)

\* impl Display for Task
to_string(task) ==
    PIPE \o SPACE \o task.name \o SPACE
    \o PIPE \o SPACE \o tags_to_string(task.tags) \o SPACE
    \o PIPE \o SPACE \o bool_to_string(task.complete) \o SPACE
    \o PIPE \o SPACE \o export_deadline(task) \o SPACE \o PIPE

\* the fields Task::from_str matches against [name, tags, complete, deadline]
split_fields(s) ==
    LET parts == split(trim_matches(trim(s), "|"), PIPE)
    IN  [i \in 1..Len(parts) |-> trim(parts[i])]

NotBlank(tag) == trim(tag) # <<>>

\* parse_tags without the blank check: an empty field becomes Some([""])
parse_tags_always_some(tags_str) == Some(split(tags_str, COMMA_SPACE))

\* the tags of a line: None when no comma-separated entry is non-blank,
\* otherwise the field split on ", "
parse_tags(tags_str) ==
    IF SelectSeq(split(tags_str, COMMA), NotBlank) = <<>>
    THEN None
    ELSE Some(split(tags_str, COMMA_SPACE))

\* the outcome of from_str on exactly four fields, given the parsed columns
task_of(vals, tags, deadline, complete) ==
    [ok |-> TRUE,
     val |-> [name |-> vals[1], tags |-> tags, deadline |-> deadline,
              complete |-> complete]]

\* from_str taking the first four of four or more fields
from_str_lenient(s) ==
    LET vals == split_fields(s)
    IN  IF Len(vals) >= 4
        THEN LET deadline == parse_from_rfc3339(trim(vals[4]))
                 complete == parse_bool(vals[3])
             IN  IF ~deadline.ok THEN [ok |-> FALSE, err |-> deadline.err]
                 ELSE IF ~complete.ok THEN [ok |-> FALSE, err |-> complete.err]
                 ELSE task_of(vals, parse_tags(vals[2]), deadline.val,
                              complete.val)
        ELSE [ok |-> FALSE, err |-> "InvalidTaskFormat"]

\* from_str parsing the complete column before the deadline column
from_str_bool_first(s) ==
    LET vals == split_fields(s)
    IN  IF Len(vals) = 4
        THEN LET deadline == parse_from_rfc3339(trim(vals[4]))
                 complete == parse_bool(vals[3])
             IN  IF ~complete.ok THEN [ok |-> FALSE, err |-> complete.err]
                 ELSE IF ~deadline.ok THEN [ok |-> FALSE, err |-> deadline.err]
                 ELSE task_of(vals, parse_tags(vals[2]), deadline.val,
                              complete.val)
        ELSE [ok |-> FALSE, err |-> "InvalidTaskFormat"]

\* impl FromStr for Task
from_str(s) ==
    LET vals == split_fields(s)
    IN  IF Len(vals) = 4
        THEN LET tags     == parse_tags(vals[2])
                 deadline == parse_from_rfc3339(trim(vals[4]))
                 complete == parse_bool(vals[3])
             IN  IF ~deadline.ok THEN [ok |-> FALSE, err |-> deadline.err]
                 ELSE IF ~complete.ok THEN [ok |-> FALSE, err |-> complete.err]
                 ELSE task_of(vals, tags, deadline.val, complete.val)
        ELSE [ok |-> FALSE, err |-> "InvalidTaskFormat"]

-----------------------------------------------------------------------------
(* Inputs of the codec *)

NAME_A == <<"a">>
NAME_LONG == <<"T", "a", "s", "k", " ", "1">>
NAME_EMPTY == <<>>
NAME_PIPE == <<"a", "|", "b">>
NAME_PADDED == <<" ", "a">>
TAG_X == <<"x">>
TAG_Y == <<"y">>
TAG_EMPTY == <<>>
TAG_COMMA == <<"x", ",", " ", "y">>

\* names a caller can pass to add_task (any String)
Names == {NAME_A, NAME_LONG, NAME_EMPTY, NAME_PIPE, NAME_PADDED}

\* tags a caller can pass to add_task (any Option<Vec<String>>)
TagValues ==
    {None, Some(<<>>), Some(<<TAG_X>>), Some(<<TAG_X, TAG_Y>>),
     Some(<<TAG_EMPTY>>), Some(<<TAG_COMMA>>), Some(<<TAG_X, TAG_EMPTY>>)}

Deadlines == 0..MaxDeadline

Tasks ==
    [name : Names, tags : TagValues, deadline : Deadlines, complete : BOOLEAN]

F_EMPTY == <<>>
F_TAGS == <<"x", ",", " ", "y">>
F_COMMAS == <<",", " ", " ", ",">>
F_NOT_BOOL == <<"T", "r", "u", "e">>
F_TS == to_rfc3339(1)
F_TS_ZULU == RFC_PREFIX \o <<"2">> \o ZULU
F_BAD_TS == RFC_PREFIX

\* contents of one field of a generated line
FieldPool ==
    {F_EMPTY, NAME_A, F_TAGS, F_COMMAS, TRUE_STR, FALSE_STR, F_NOT_BOOL,
     F_TS, F_TS_ZULU, F_BAD_TS}
\* contents of the fields after the fourth
ExtraPool == {F_EMPTY, NAME_A}
Styles == {"table", "bare", "indented"}

\* the field lists of at most max fields
FieldLists(max) ==
    UNION {[1..n -> FieldPool] : n \in 0..4}
    \cup {head \o tail :
             head \in [1..4 -> FieldPool],
             tail \in UNION {[1..k -> ExtraPool] : k \in 1..(max - 4)}}

Padded(fields) == [i \in 1..Len(fields) |-> SPACE \o fields[i] \o SPACE]

\* a line of the file as a user or the program may have written it
MakeLine(fields, style) ==
    IF style = "bare" THEN join(fields, PIPE)
    ELSE IF style = "table" THEN PIPE \o join(Padded(fields), PIPE) \o PIPE
    ELSE SPACE \o SPACE \o PIPE \o join(Padded(fields), PIPE) \o PIPE
         \o <<"\r">>

\* the generated lines of at most max fields
Lines(max) ==
    {MakeLine(fields, style) : fields \in FieldLists(max), style \in Styles}

-----------------------------------------------------------------------------
(* The codec as a state machine: hand it a Task or a line, apply it *)

NoInput == [task |-> None, line |-> None]
NoOutput == [line |-> None, decoded |-> None]

\* the line the next decode reads: the given one, or the one just encoded
PendingLine == IF input.line # None THEN input.line ELSE output.line

\* Task::to_string (impl Display for Task)
Encode ==
    /\ input.task # None
    /\ output.line = None
    /\ output' = [output EXCEPT !.line = Some(to_string(input.task[1]))]
    /\ UNCHANGED <<input, file, last, adds, procs, database>>

\* Task::from_str (impl FromStr for Task)
Decode ==
    /\ PendingLine # None
    /\ output.decoded = None
    /\ output' = [output EXCEPT !.decoded = Some(from_str(PendingLine[1]))]
    /\ UNCHANGED <<input, file, last, adds, procs, database>>

-----------------------------------------------------------------------------
(* The task store: PlainTextTaskTracker over one backing file *)

\* a byte that is not valid UTF-8: BufRead::lines yields Err for its line
INVALID_BYTE == "<FF>"

DropLastIfEmpty(pieces) ==
    IF pieces # <<>> /\ pieces[Len(pieces)] = <<>>
    THEN SubSeq(pieces, 1, Len(pieces) - 1)
    ELSE pieces

\* BufRead::lines: the text between newlines, without the newline and
\* without a carriage return before it; no line after the final newline
lines(content) ==
    LET pieces     == split(content, NEWLINE)
        terminated == Len(pieces) - 1
        strip_cr(i) ==
            IF i <= terminated /\ pieces[i] # <<>>
               /\ pieces[i][Len(pieces[i])] = "\r"
            THEN SubSeq(pieces[i], 1, Len(pieces[i]) - 1)
            ELSE pieces[i]
    IN  DropLastIfEmpty([i \in 1..Len(pieces) |-> strip_cr(i)])

\* whether BufRead::lines yields Ok for the line
is_ok_line(line) == \A i \in 1..Len(line) : line[i] # INVALID_BYTE

\* Iterator::map_while(Result::ok): the lines before the first read error
RECURSIVE map_while_ok(_)
map_while_ok(ls) ==
    IF ls = <<>> THEN <<>>
    ELSE IF is_ok_line(Head(ls)) THEN <<Head(ls)>> \o map_while_ok(Tail(ls))
    ELSE <<>>

\* collect_tasks passing over the lines that are blank
RECURSIVE collect_tasks_skip_blank(_)
collect_tasks_skip_blank(ls) ==
    IF ls = <<>> THEN [ok |-> TRUE, val |-> <<>>]
    ELSE IF trim(Head(ls)) = <<>> THEN collect_tasks_skip_blank(Tail(ls))
    ELSE LET first == from_str(Head(ls))
         IN  IF ~first.ok THEN [ok |-> FALSE, err |-> first.err]
             ELSE LET rest == collect_tasks_skip_blank(Tail(ls))
                  IN  IF ~rest.ok THEN rest
                      ELSE [ok |-> TRUE, val |-> <<first.val>> \o rest.val]

\* collect::<Result<Vec<Task>, ParseTaskError>>: every decoded task, or the
\* error of the first line that does not decode
RECURSIVE collect_tasks(_)
collect_tasks(ls) ==
    IF ls = <<>> THEN [ok |-> TRUE, val |-> <<>>]
    ELSE LET first == from_str(Head(ls))
         IN  IF ~first.ok THEN [ok |-> FALSE, err |-> first.err]
             ELSE LET rest == collect_tasks(Tail(ls))
                  IN  IF ~rest.ok THEN rest
                      ELSE [ok |-> TRUE, val |-> <<first.val>> \o rest.val]

\* a sort step that is not stable: t goes before the tasks of its deadline
RECURSIVE insert_before_equal(_, _)
insert_before_equal(sorted, t) ==
    IF sorted = <<>> THEN <<t>>
    ELSE IF sorted[Len(sorted)].deadline < t.deadline THEN Append(sorted, t)
    ELSE Append(insert_before_equal(SubSeq(sorted, 1, Len(sorted) - 1), t),
                sorted[Len(sorted)])

\* one step of the stable sort: t goes behind every task that is not later
RECURSIVE insert_by_deadline(_, _)
insert_by_deadline(sorted, t) ==
    IF sorted = <<>> THEN <<t>>
    ELSE IF sorted[Len(sorted)].deadline <= t.deadline THEN Append(sorted, t)
    ELSE Append(insert_by_deadline(SubSeq(sorted, 1, Len(sorted) - 1), t),
                sorted[Len(sorted)])

\* the tasks left in the order of their lines
keep_file_order(tasks) == tasks

\* Vec::sort_by(|a, b| a.deadline.cmp(&b.deadline)): a stable sort
RECURSIVE sort_by_deadline(_)
sort_by_deadline(tasks) ==
    IF tasks = <<>> THEN <<>>
    ELSE insert_by_deadline(
             sort_by_deadline(SubSeq(tasks, 1, Len(tasks) - 1)),
             tasks[Len(tasks)])

\* PlainTextTaskTracker::read_tasks_from_file
read_tasks_from_file(content) ==
    LET tasks == collect_tasks(map_while_ok(lines(content)))
    IN  IF ~tasks.ok THEN tasks
        ELSE [ok |-> TRUE, val |-> sort_by_deadline(tasks.val)]

\* PlainTextTaskTracker::write_tasks_to_file
RECURSIVE write_tasks_to_file(_)
write_tasks_to_file(tasks) ==
    IF tasks = <<>> THEN <<>>
    ELSE to_string(Head(tasks)) \o NEWLINE \o write_tasks_to_file(Tail(tasks))

\* add_task_logic with write! in place of writeln!
add_task_logic_no_newline(task) == to_string(task)

\* PlainTextTaskTracker::add_task_logic: what is written to the writer
add_task_logic(task) == to_string(task) \o NEWLINE

\* positions of the tasks that are not complete, in order
RECURSIVE incomplete_positions(_, _)
incomplete_positions(tasks, from) ==
    IF from > Len(tasks) THEN <<>>
    ELSE (IF ~tasks[from].complete THEN <<from>> ELSE <<>>)
         \o incomplete_positions(tasks, from + 1)

\* complete_task_logic enumerating every task, complete or not
complete_task_logic_all_enumerated(tasks, id) ==
    [i \in 1..Len(tasks) |->
        IF i = id + 1 THEN Task_complete(tasks[i]) ELSE tasks[i]]

\* complete_task_logic taking an index past the end for the last
\* incomplete task
complete_task_logic_clamped(tasks, id) ==
    LET pos == incomplete_positions(tasks, 1)
    IN  [i \in 1..Len(tasks) |->
            IF pos # <<>> /\ pos[Min({id + 1, Len(pos)})] = i
            THEN Task_complete(tasks[i])
            ELSE tasks[i]]

\* PlainTextTaskTracker::complete_task_logic: filter the incomplete tasks,
\* enumerate them from 0, complete the one numbered id
complete_task_logic(tasks, id) ==
    LET pos == incomplete_positions(tasks, 1)
    IN  [i \in 1..Len(tasks) |->
            IF id + 1 <= Len(pos) /\ pos[id + 1] = i
            THEN Task_complete(tasks[i])
            ELSE tasks[i]]

\* the scan of delete_task_logic: for each task the pair
\* (incomplete_idx, total_idx) after the task was counted
RECURSIVE delete_scan(_, _, _)
delete_scan(tasks, incomplete_idx, total_idx) ==
    IF tasks = <<>> THEN <<>>
    ELSE LET total == IF total_idx = None THEN Some(0)
                      ELSE Some(total_idx[1] + 1)
             incomplete ==
                 IF ~Head(tasks).complete
                 THEN (IF incomplete_idx = None THEN Some(0)
                       ELSE Some(incomplete_idx[1] + 1))
                 ELSE incomplete_idx
         IN  <<[incomplete_idx |-> incomplete, total_idx |-> total]>>
             \o delete_scan(Tail(tasks), incomplete, total)

HasIncompleteIdx(pair) == pair.incomplete_idx # None

\* delete_task_logic removing at the index counted over incomplete tasks
delete_task_logic_by_incomplete_idx(tasks, id) ==
    IF id + 1 > Cardinality({i \in 1..Len(tasks) : ~tasks[i].complete})
    THEN tasks
    ELSE SubSeq(tasks, 1, id) \o SubSeq(tasks, id + 2, Len(tasks))

\* PlainTextTaskTracker::delete_task_logic: remove the task at the total_idx
\* of the first scanned pair whose incomplete_idx is id
delete_task_logic(tasks, id) ==
    LET pairs == SelectSeq(delete_scan(tasks, None, None), HasIncompleteIdx)
        hits  == {k \in 1..Len(pairs) : pairs[k].incomplete_idx[1] = id}
    IN  IF hits = {} THEN tasks
        ELSE LET delete_idx == pairs[Min(hits)].total_idx[1]
             IN  SubSeq(tasks, 1, delete_idx)
                 \o SubSeq(tasks, delete_idx + 2, Len(tasks))

-----------------------------------------------------------------------------
(* list_task *)

COLUMN_PADDING == 4
DEADLINE_LENGTH == 16
NAME_HEADER == <<"N", "a", "m", "e">>
TAGS_HEADER == <<"T", "a", "g", "s">>
ID_HEADER == <<"I", "d">>

Max(a, b) == IF a >= b THEN a ELSE b

\* usize::checked_ilog10
RECURSIVE log10(_)
log10(n) == IF n < 10 THEN 0 ELSE 1 + log10(n \div 10)
checked_ilog10(n) == IF n = 0 THEN None ELSE Some(log10(n))

\* number of decimal digits of a printed id
id_length(id) ==
    (IF checked_ilog10(id) = None THEN 0 ELSE checked_ilog10(id)[1]) + 1

\* task.tags.as_deref().unwrap_or_default()
tags_or_default(task) == IF task.tags = None THEN <<>> ELSE task.tags[1]

tags_display(task) == join(tags_or_default(task), COMMA_SPACE)

IsIncomplete(task) == ~task.complete

\* the tasks list_task goes over: all of them when `incomplete` is true,
\* the incomplete ones otherwise
listed_tasks(tasks, incomplete) ==
    IF incomplete THEN tasks ELSE SelectSeq(tasks, IsIncomplete)

RECURSIVE max_name_length(_)
max_name_length(tasks) ==
    IF tasks = <<>> THEN 2
    ELSE Max(max_name_length(Tail(tasks)), Len(Head(tasks).name))

RECURSIVE max_tags_length(_)
max_tags_length(tasks) ==
    IF tasks = <<>> THEN 4
    ELSE Max(max_tags_length(Tail(tasks)), Len(tags_display(Head(tasks))))

max_id_length(tasks) == Max(1 + log10(Len(tasks)), 2)

\* skipped with a tag filter that is content with one requested tag
skipped_any_tag(task, overdue, tags, now) ==
    \/ overdue /\ task.deadline > now
    \/ /\ tags # None
       /\ ~\E i \in 1..Len(tags[1]) :
              \E j \in 1..Len(tags_or_default(task)) :
                  tags_or_default(task)[j] = tags[1][i]

\* whether the row of a task is skipped by the overdue or the tag filter
skipped(task, overdue, tags, now) ==
    \/ overdue /\ task.deadline > now
    \/ /\ tags # None
       /\ ~\A i \in 1..Len(tags[1]) :
              \E j \in 1..Len(tags_or_default(task)) :
                  tags_or_default(task)[j] = tags[1][i]

\* rows numbered by their place among the rows that are printed
list_rows_numbered_as_shown(tasks, from, overdue, tags, clock) ==
    LET shown == {i \in from..Len(tasks) :
                     ~skipped(tasks[i], overdue, tags, clock[i])}
        nth(k) == CHOOSE i \in shown :
                      Cardinality({j \in shown : j < i}) = k - 1
    IN  [k \in 1..Cardinality(shown) |-> [id |-> k - 1, task |-> tasks[nth(k)]]]

\* the rows printed for tasks[from..]: the enumerate() index of the task
\* (printed only when `incomplete` is false) and the task; the loop reads
\* Utc::now() anew at the overdue test of every task, clock[i] being the
\* instant read for tasks[i]
RECURSIVE list_rows(_, _, _, _, _)
list_rows(tasks, from, overdue, tags, clock) ==
    IF from > Len(tasks) THEN <<>>
    ELSE (IF skipped(tasks[from], overdue, tags, clock[from]) THEN <<>>
          ELSE <<[id |-> from - 1, task |-> tasks[from]]>>)
         \o list_rows(tasks, from + 1, overdue, tags, clock)

\* the widths list_task computes and whether computing the header panics:
\* ilog10 of 0 panics; max_name_length - "Name".len() overflows usize when
\* no name has 4 bytes, which panics when overflow checks are compiled in
\* and wraps back to the width otherwise
list_layout(tasks, overflow_checks) ==
    [panic |-> \/ Len(tasks) = 0
               \/ overflow_checks /\ max_name_length(tasks) < Len(NAME_HEADER),
     id    |-> IF Len(tasks) = 0 THEN 0 ELSE max_id_length(tasks),
     name  |-> max_name_length(tasks),
     tags  |-> max_tags_length(tasks)]

-----------------------------------------------------------------------------
(* Legacy DataBase (mod database of main.rs) *)

\* a u32, the type of Item::id, is kept as two 16-bit halves: the value of
\* [hi, lo] is hi * U16 + lo
U16 == 65536

u32(hi, lo) == [hi |-> hi, lo |-> lo]

U32_ZERO == u32(0, 0)
U32_MAX == u32(U16 - 1, U16 - 1)

\* a <= b on u32
u32_le(a, b) == a.hi < b.hi \/ (a.hi = b.hi /\ a.lo <= b.lo)

\* v + 1 on u32 where it fits, None where it overflows
checked_add_one(v) ==
    IF v = U32_MAX
    THEN None
    ELSE IF v.lo + 1 < U16
         THEN Some(u32(v.hi, v.lo + 1))
         ELSE Some(u32(v.hi + 1, 0))

\* v + 1 on u32 in a build without overflow checks
wrapping_add_one(v) ==
    IF checked_add_one(v) = None THEN U32_ZERO ELSE checked_add_one(v)[1]

PROJECT_1 == "Project 1"
PROJECT_2 == "Project 2"
DESCRIPTION == "First task"

Item_new(id, project, description, complete) ==
    [id |-> id, project |-> project, description |-> description,
     complete |-> complete]

item_ids(items) == {items[i].id : i \in 1..Len(items)}

get_max_id(items) ==
    IF items = <<>>
    THEN None
    ELSE Some(CHOOSE m \in item_ids(items) :
                  \A x \in item_ids(items) : u32_le(x, m))

\* the id add_item computes: v + 1 on a u32 panics in a build with overflow
\* checks and wraps in a build without them
next_id(items, overflow_checks) ==
    IF get_max_id(items) = None
    THEN [panic |-> FALSE, id |-> U32_ZERO]
    ELSE [panic |-> /\ overflow_checks
                    /\ checked_add_one(get_max_id(items)[1]) = None,
          id    |-> wrapping_add_one(get_max_id(items)[1])]

add_item(items, project, description, overflow_checks) ==
    Append(items, Item_new(next_id(items, overflow_checks).id,
                           project, description, FALSE))

complete_item(items, id) ==
    [i \in 1..Len(items) |->
        IF items[i].id = id
        THEN [items[i] EXCEPT !.complete = TRUE]
        ELSE items[i]]

delete_item(items, id) == SelectSeq(items, LAMBDA x : x.id # id)

\* a call on the DataBase: its arguments, the items before it and whether it
\* returned
Call(op, id, project, description, before, result) ==
    [op |-> op, id |-> id, project |-> project, description |-> description,
     before |-> before, result |-> result]

NoCall == Call("none", U32_ZERO, "", "", <<>>, "Ok")

\* a DataBase holding the given items (loaded: the items it started with)
DataBase(items) ==
    [items |-> items, loaded |-> items, calls |-> 0, call |-> NoCall]

NoDataBase == DataBase(<<>>)

\* ids a caller may pass: those of the items, and one no item has
IdInputs(items) == item_ids(items) \cup {next_id(items, FALSE).id}

AddItem ==
    /\ database.calls < MaxCalls
    /\ \E project \in {PROJECT_1, PROJECT_2}, overflow_checks \in BOOLEAN :
          IF next_id(database.items, overflow_checks).panic
          THEN database' =
                   [database EXCEPT
                       !.calls = @ + 1,
                       !.call = Call("add_item", U32_ZERO, project, DESCRIPTION,
                                     database.items, "panic")]
          ELSE database' =
                   [database EXCEPT
                       !.items = add_item(@, project, DESCRIPTION,
                                          overflow_checks),
                       !.calls = @ + 1,
                       !.call = Call("add_item", U32_ZERO, project, DESCRIPTION,
                                     database.items, "Ok")]
    /\ UNCHANGED <<input, output, file, last, adds, procs>>

CompleteItem ==
    /\ database.calls < MaxCalls
    /\ \E id \in IdInputs(database.items) :
          database' =
              [database EXCEPT
                  !.items = complete_item(@, id),
                  !.calls = @ + 1,
                  !.call = Call("complete_item", id, "", "",
                                database.items, "Ok")]
    /\ UNCHANGED <<input, output, file, last, adds, procs>>

DeleteItem ==
    /\ database.calls < MaxCalls
    /\ \E id \in IdInputs(database.items) :
          database' =
              [database EXCEPT
                  !.items = delete_item(@, id),
                  !.calls = @ + 1,
                  !.call = Call("delete_item", id, "", "",
                                database.items, "Ok")]
    /\ UNCHANGED <<input, output, file, last, adds, procs>>

-----------------------------------------------------------------------------
(* Operations of the store (impl TaskTracker for PlainTextTaskTracker) *)

\* a file opened for writing without truncate(true): its content stays
open_without_truncate(content) == content

\* OpenOptions write(true).truncate(true).open: the file is emptied when it
\* is opened, before anything is written
open_truncate(content) == <<>>

\* the BufWriter of complete_task / delete_task flushed when it is dropped:
\* the handle was opened without append, so the bytes go to offset 0 and
\* overwrite what the file holds there; what lies past them stays
write_at_start(content, bytes) ==
    bytes \o SubSeq(content, Len(bytes) + 1, Len(content))

NoLayout == [panic |-> FALSE, id |-> 0, name |-> 0, tags |-> 0]

\* the record of an operation; fields an operation does not have stay empty
\* (stored: the collection complete_task / delete_task write back)
Record(op, id, task, before, loaded, result, err) ==
    [op |-> op, id |-> id, task |-> task, before |-> before,
     loaded |-> loaded, result |-> result, err |-> err,
     args |-> <<>>, rows |-> <<>>, layout |-> NoLayout, stored |-> None]

NoOp == Record("none", 0, None, None, None, "Ok", "")

\* the processes of two invocations of the program on the same file
Proc == {1, 2}

\* a process before its command: pc is where it stands (idle, loaded,
\* truncated, done), tasks the collection it loaded, loadedAt, truncatedAt
\* and wroteAt the positions of its load, of its truncating open and of its
\* write among the file accesses of all processes
Idle ==
    [pc |-> "idle", op |-> "none", id |-> 0, task |-> None, tasks |-> None,
     result |-> "", loadedAt |-> 0, truncatedAt |-> 0, wroteAt |-> 0]

NoProcs == [p \in Proc |-> Idle]

\* a process has started and has not run its command yet: every run of the
\* program performs exactly one operation
Started == last.op = "none"

\* the process returns from main; the next run starts from the file alone
Exit ==
    /\ ~Started
    /\ last' = NoOp
    /\ UNCHANGED <<input, output, file, adds, procs, database>>

\* the arguments add_task is called with: a plain task, one with a tag,
\* one whose name holds the field separator, one with the latest deadline
AddInputs ==
    {[name |-> <<"b">>, tags |-> None, deadline |-> 0],
     [name |-> <<"b">>, tags |-> Some(<<TAG_X>>), deadline |-> 1],
     [name |-> NAME_PIPE, tags |-> None, deadline |-> 1],
     [name |-> NAME_LONG, tags |-> Some(<<>>), deadline |-> MaxDeadline]}

\* PlainTextTaskTracker::add_task: append(true).create(true), one writeln
AddTask ==
    /\ Started
    /\ adds < MaxAdds
    /\ \E arg \in AddInputs :
          LET task    == Task_new(arg.name, arg.tags, arg.deadline)
              content == IF file = None THEN <<>> ELSE file[1]
          IN  /\ file' = Some(content \o add_task_logic(task))
              /\ last' = Record("add", 0, Some(task), file, None, "Ok", "")
    /\ adds' = adds + 1
    /\ UNCHANGED <<input, output, procs, database>>

\* the first half of complete_task, delete_task and list_task: open the
\* file for reading (no create) and read_tasks_from_file
Load ==
    IF file = None THEN [ok |-> FALSE, kind |-> "IO", err |-> "NotFound"]
    ELSE LET tasks == read_tasks_from_file(file[1])
         IN  IF tasks.ok THEN tasks
             ELSE [ok |-> FALSE, kind |-> "InvalidTask", err |-> tasks.err]

\* PlainTextTaskTracker::complete_task: Load, complete_task_logic, then
\* open with truncate and write_tasks_to_file
CompleteTask ==
    /\ Started
    /\ \E loaded \in {Load} :
        \E id \in 0..MaxId :
          IF ~loaded.ok
          THEN /\ last' = Record("complete", id, None, file, None,
                                 loaded.kind, loaded.err)
               /\ UNCHANGED file
          ELSE \E tasks \in {complete_task_logic(loaded.val, id)} :
               /\ file' = Some(write_at_start(open_truncate(file[1]),
                                               write_tasks_to_file(tasks)))
               /\ last' = [Record("complete", id, None, file,
                                  Some(loaded.val), "Ok", "")
                           EXCEPT !.stored = Some(tasks)]
    /\ UNCHANGED <<input, output, adds, procs, database>>

\* PlainTextTaskTracker::delete_task: Load, delete_task_logic, then open
\* with truncate and write_tasks_to_file
DeleteTask ==
    /\ Started
    /\ \E loaded \in {Load} :
        \E id \in 0..MaxId :
          IF ~loaded.ok
          THEN /\ last' = Record("delete", id, None, file, None,
                                 loaded.kind, loaded.err)
               /\ UNCHANGED file
          ELSE \E tasks \in {delete_task_logic(loaded.val, id)} :
               /\ file' = Some(write_at_start(open_truncate(file[1]),
                                               write_tasks_to_file(tasks)))
               /\ last' = [Record("delete", id, None, file,
                                  Some(loaded.val), "Ok", "")
                           EXCEPT !.stored = Some(tasks)]
    /\ UNCHANGED <<input, output, adds, procs, database>>

\* tag filters handed to list_task
ListTags == {None, Some(<<TAG_X>>), Some(<<TAG_X, TAG_Y>>)}
\* the instants Utc::now() is read at
Nows == 0..(MaxDeadline + 1)

\* the readings of the clock during one listing of n tasks, one at the
\* overdue test of each task: Utc::now() is the system clock, which moves
\* during the call and which nothing keeps from being set back; without the
\* overdue filter the test does not read the clock
Clocks(n, overdue) ==
    IF overdue THEN [1..n -> Nows] ELSE {[i \in 1..n |-> 0]}

\* the arguments list_task is called with, and whether the build checks
\* arithmetic overflow
ListInputs ==
    [incomplete : BOOLEAN, overdue : {FALSE}, tags : ListTags,
     overflow_checks : BOOLEAN]
    \cup [incomplete : BOOLEAN, overdue : {TRUE},
          tags : {None, Some(<<TAG_X>>)}, overflow_checks : BOOLEAN]

\* the arguments of a listing together with the clock readings it made
ListArgs(arg, clock) ==
    [incomplete |-> arg.incomplete, overdue |-> arg.overdue,
     tags |-> arg.tags, overflow_checks |-> arg.overflow_checks,
     clock |-> clock]

\* PlainTextTaskTracker::list_task
ListTask ==
    /\ Started
    /\ \E loaded \in {Load} :
           \E arg \in ListInputs :
             IF ~loaded.ok
             THEN last' = [Record("list", 0, None, file, None,
                                  loaded.kind, loaded.err)
                           EXCEPT !.args = <<ListArgs(arg, <<>>)>>]
             ELSE LET tasks  == listed_tasks(loaded.val, arg.incomplete)
                      layout == list_layout(tasks, arg.overflow_checks)
                  IN  IF layout.panic
                      THEN last' =
                             [Record("list", 0, None, file,
                                     Some(loaded.val), "panic", "")
                              EXCEPT !.args = <<ListArgs(arg, <<>>)>>,
                                     !.layout = layout]
                      ELSE \E clock \in Clocks(Len(tasks), arg.overdue) :
                             last' =
                               [Record("list", 0, None, file,
                                       Some(loaded.val), "Ok", "")
                                EXCEPT !.args = <<ListArgs(arg, clock)>>,
                                       !.layout = layout,
                                       !.rows = list_rows(tasks, 1,
                                                          arg.overdue,
                                                          arg.tags, clock)]
    /\ UNCHANGED <<input, output, file, adds, procs, database>>

-----------------------------------------------------------------------------
(* Initial states and specifications *)

V1 == [name |-> NAME_A, tags |-> None, deadline |-> 1, complete |-> FALSE]
V2 == [name |-> NAME_LONG, tags |-> Some(<<TAG_X>>), deadline |-> 0,
       complete |-> FALSE]
V3 == [name |-> NAME_A, tags |-> Some(<<TAG_X, TAG_Y>>), deadline |-> 1,
       complete |-> TRUE]
V4 == [name |-> NAME_LONG, tags |-> Some(<<TAG_X, TAG_Y>>),
       deadline |-> MaxDeadline, complete |-> FALSE]
L_BLANK == <<>>
L_SPACES == <<" ", " ">>
L_BAD_BOOL == MakeLine(<<NAME_A, F_EMPTY, F_NOT_BOOL, F_TS>>, "table")
L_INVALID == <<INVALID_BYTE>>

\* lines found in a backing file: written by the program, or by hand
FileLinePool ==
    {to_string(V1), to_string(V2), to_string(V3),
     L_BLANK, L_SPACES, L_BAD_BOOL, L_INVALID}

\* the backing file before the first operation: the lines joined by
\* newlines, with or without a newline after the last one
InitialFiles(max) ==
    {join(ls, NEWLINE) \o (IF terminated THEN NEWLINE ELSE <<>>) :
        ls \in UNION {[1..n -> FileLinePool] : n \in 0..max},
        terminated \in BOOLEAN}

\* the program before its first run: no backing file yet
Init ==
    /\ file = None
    /\ last = NoOp
    /\ adds = 0
    /\ procs = NoProcs
    /\ database = NoDataBase
    /\ input = NoInput
    /\ output = NoOutput

Next == AddTask \/ CompleteTask \/ DeleteTask \/ ListTask \/ Exit

Spec == Init /\ [][Next]_vars

\* the store over a backing file that already exists, as earlier runs or
\* an editor left it
InitStore ==
    /\ file \in {Some(content) : content \in InitialFiles(MaxLines)}
    /\ last = NoOp
    /\ adds = 0
    /\ procs = NoProcs
    /\ database = NoDataBase
    /\ input = NoInput
    /\ output = NoOutput

NextStore == AddTask \/ CompleteTask \/ DeleteTask \/ Exit

SpecStore == InitStore /\ [][NextStore]_vars

\* lines of the files that are listed: a tagged task due last is among them
ListLinePool == FileLinePool \cup {to_string(V4)}

ListFiles(max) ==
    {join(ls, NEWLINE) \o (IF terminated THEN NEWLINE ELSE <<>>) :
        ls \in UNION {[1..n -> ListLinePool] : n \in 0..max},
        terminated \in BOOLEAN}

\* listings of a backing file that already exists
InitList ==
    /\ file \in {Some(content) : content \in ListFiles(MaxLines)}
    /\ last = NoOp
    /\ adds = 0
    /\ procs = NoProcs
    /\ database = NoDataBase
    /\ input = NoInput
    /\ output = NoOutput

NextList == ListTask \/ Exit

SpecList == InitList /\ [][NextList]_vars

\* the position of the next file access among those of all processes
Tick ==
    1 + Cardinality({p \in Proc : procs[p].loadedAt > 0})
      + Cardinality({p \in Proc : procs[p].truncatedAt > 0})
      + Cardinality({p \in Proc : procs[p].wroteAt > 0})

\* add_task run by process p: one append to whatever the file holds now
RaceAdd(p) ==
    /\ procs[p].pc = "idle"
    /\ \E arg \in AddInputs :
          LET task    == Task_new(arg.name, arg.tags, arg.deadline)
              content == IF file = None THEN <<>> ELSE file[1]
          IN  /\ file' = Some(content \o add_task_logic(task))
              /\ procs' = [procs EXCEPT ![p] =
                              [Idle EXCEPT !.pc = "done", !.op = "add",
                                           !.task = Some(task),
                                           !.result = "Ok",
                                           !.wroteAt = Tick]]
    /\ UNCHANGED <<input, output, last, adds, database>>

\* the first part of complete_task / delete_task run by process p: open
\* for reading and read_tasks_from_file; an error ends the operation
RaceLoad(p) ==
    /\ procs[p].pc = "idle"
    /\ \E loaded \in {Load} : \E op \in {"complete", "delete"} :
        \E id \in 0..MaxId :
          procs' = [procs EXCEPT ![p] =
                      IF ~loaded.ok
                      THEN [Idle EXCEPT !.pc = "done", !.op = op, !.id = id,
                                        !.result = loaded.kind,
                                        !.loadedAt = Tick]
                      ELSE [Idle EXCEPT !.pc = "loaded", !.op = op,
                                        !.id = id,
                                        !.tasks = Some(loaded.val),
                                        !.loadedAt = Tick]]
    /\ UNCHANGED <<input, output, file, last, adds, database>>

\* the second part of complete_task / delete_task run by process p: the
\* file is opened with truncate(true), which empties it
RaceTruncate(p) ==
    /\ procs[p].pc = "loaded"
    /\ file # None
    /\ file' = Some(open_truncate(file[1]))
    /\ procs' = [procs EXCEPT ![p].pc = "truncated",
                              ![p].truncatedAt = Tick]
    /\ UNCHANGED <<input, output, last, adds, database>>

\* the last part of complete_task / delete_task run by process p: the
\* logic on the collection it loaded, written through the handle it opened
RaceWrite(p) ==
    /\ procs[p].pc = "truncated"
    /\ file # None
    /\ \E tasks \in {IF procs[p].op = "complete"
                      THEN complete_task_logic(procs[p].tasks[1], procs[p].id)
                      ELSE delete_task_logic(procs[p].tasks[1],
                                             procs[p].id)} :
          file' = Some(write_at_start(file[1], write_tasks_to_file(tasks)))
    /\ procs' = [procs EXCEPT ![p].pc = "done", ![p].result = "Ok",
                              ![p].wroteAt = Tick]
    /\ UNCHANGED <<input, output, last, adds, database>>

\* two processes started on the same existing file, no lock between them
InitRace ==
    /\ file \in {Some(content) : content \in InitialFiles(MaxAdds)}
    /\ last = NoOp
    /\ adds = 0
    /\ procs = NoProcs
    /\ database = NoDataBase
    /\ input = NoInput
    /\ output = NoOutput

NextRace ==
    \E p \in Proc :
        RaceAdd(p) \/ RaceLoad(p) \/ RaceTruncate(p) \/ RaceWrite(p)

SpecRace == InitRace /\ [][NextRace]_vars

\* items a legacy DataBase holds after DataBase::read: none for a new file,
\* otherwise whatever ids the lines of the file carry
InitialItems ==
    {<<>>,
     <<Item_new(U32_MAX, PROJECT_1, DESCRIPTION, FALSE)>>,
     <<Item_new(U32_ZERO, PROJECT_1, DESCRIPTION, TRUE),
       Item_new(u32(U16 - 1, U16 - 2), PROJECT_2, DESCRIPTION, FALSE)>>}

InitLegacy ==
    /\ database \in {DataBase(items) : items \in InitialItems}
    /\ file = None
    /\ last = NoOp
    /\ adds = 0
    /\ procs = NoProcs
    /\ input = NoInput
    /\ output = NoOutput

NextLegacy == AddItem \/ CompleteItem \/ DeleteItem

SpecLegacy == InitLegacy /\ [][NextLegacy]_vars

\* what the codec is handed: a task to encode, or a line to decode
CodecInputs(max) ==
    {[task |-> Some(t), line |-> None] : t \in Tasks}
    \cup {[task |-> None, line |-> Some(l)] : l \in Lines(max)}

InitCodec ==
    /\ input \in CodecInputs(MaxFields)
    /\ output = NoOutput
    /\ file = None
    /\ last = NoOp
    /\ adds = 0
    /\ procs = NoProcs
    /\ database = NoDataBase

NextCodec == Encode \/ Decode

SpecCodec == InitCodec /\ [][NextCodec]_vars

-----------------------------------------------------------------------------
(* Properties of the codec, checked under SpecCodec *)

\* tags as PartialEq sees them once None and Some([]) are identified
NormTags(tags) == IF tags = Some(<<>>) THEN None ELSE tags

TaskEq(a, b) ==
    /\ a.name = b.name
    /\ NormTags(a.tags) = NormTags(b.tags)
    /\ a.deadline = b.deadline
    /\ a.complete = b.complete

GivenTask == input.task # None
GivenLine == input.line # None
Encoded == output.line # None
Decoded == output.decoded # None
DecodeResult == output.decoded[1]

\* the line without surrounding whitespace and without the pipes at its ends
Core(line) == trim_matches(trim(line), "|")

CountPipes(s) == Cardinality({i \in 1..Len(s) : s[i] = "|"})

\* number of '|'-separated fields of a line: one more than the pipes left
FieldCount(line) == 1 + CountPipes(Core(line))

\* the k-th field of a line
Field(line, k) == split_fields(line)[k]

IsBoolLiteral(f) == f \in {TRUE_STR, FALSE_STR}
IsTimestamp(f) == parse_from_rfc3339(f).ok

\* a tags field with nothing but commas and whitespace
AllBlank(f) == \A i \in 1..Len(f) : f[i] = "," \/ IsWhite(f[i])

\* C1: encoding any task and decoding the line gives back an equal task
\* (None and an empty tag list being equal).
C1_RoundTrip ==
    (GivenTask /\ Decoded) =>
        /\ DecodeResult.ok
        /\ TaskEq(DecodeResult.val, input.task[1])

\* C2: a line with fewer or more than 4 fields decodes to InvalidTaskFormat;
\* a Task is built only from exactly 4 fields.
C2_FieldCount ==
    (GivenLine /\ Decoded) =>
        /\ FieldCount(input.line[1]) # 4 =>
               /\ ~DecodeResult.ok
               /\ DecodeResult.err = "InvalidTaskFormat"
        /\ DecodeResult.ok => FieldCount(input.line[1]) = 4

\* a line of more than 4 fields whose first four would make a task was
\* decoded and rejected
C2_Witness ==
    /\ GivenLine /\ Decoded
    /\ FieldCount(input.line[1]) > 4
    /\ IsBoolLiteral(Field(input.line[1], 3))
    /\ IsTimestamp(Field(input.line[1], 4))
    /\ ~DecodeResult.ok

\* C3 as stated: on a 4-field line a complete field that is not a boolean
\* literal is reported as ParseBool whatever the deadline field holds, and
\* InvalidDateFormat is reported only when the complete field is a literal.
C3_BoolBeforeDate ==
    (GivenLine /\ Decoded /\ FieldCount(input.line[1]) = 4) =>
        /\ ~IsBoolLiteral(Field(input.line[1], 3)) =>
               (~DecodeResult.ok /\ DecodeResult.err = "ParseBool")
        /\ (~DecodeResult.ok /\ DecodeResult.err = "InvalidDateFormat") =>
               IsBoolLiteral(Field(input.line[1], 3))

\* C3 amended: the deadline field is checked before the complete field: a
\* 4-field line whose deadline field is no timestamp is reported as
\* InvalidDateFormat whatever the complete field holds, and ParseBool is
\* reported exactly when the deadline is a timestamp and the complete field
\* is not a boolean literal.
C3_DateBeforeBool ==
    (GivenLine /\ Decoded /\ FieldCount(input.line[1]) = 4) =>
        /\ ~IsTimestamp(Field(input.line[1], 4)) =>
               (~DecodeResult.ok /\ DecodeResult.err = "InvalidDateFormat")
        /\ (~DecodeResult.ok /\ DecodeResult.err = "ParseBool") <=>
               /\ IsTimestamp(Field(input.line[1], 4))
               /\ ~IsBoolLiteral(Field(input.line[1], 3))

\* a 4-field line with neither a boolean literal nor a timestamp was decoded
C3_Witness ==
    /\ GivenLine /\ Decoded
    /\ FieldCount(input.line[1]) = 4
    /\ ~IsBoolLiteral(Field(input.line[1], 3))
    /\ ~IsTimestamp(Field(input.line[1], 4))
    /\ DecodeResult.err = "InvalidDateFormat"

\* C4: the deadline is optional in the stored format: a 4-field line with
\* a blank deadline field (and a valid complete field) decodes successfully.
C4_BlankDeadlineDecodes ==
    (/\ GivenLine /\ Decoded
     /\ FieldCount(input.line[1]) = 4
     /\ IsBoolLiteral(Field(input.line[1], 3))
     /\ Field(input.line[1], 4) = <<>>) => DecodeResult.ok

\* C5: a task with tags None or Some([]) encodes with an empty tags field,
\* "| <name> |  | <complete> | <deadline> |", and a line whose tags field is
\* empty or holds only blank comma-separated entries decodes to tags None.
C5_EmptyTags ==
    /\ (GivenTask /\ Encoded /\ NormTags(input.task[1].tags) = None) =>
           output.line[1] =
               PIPE \o SPACE \o input.task[1].name \o SPACE \o PIPE
               \o SPACE \o SPACE \o PIPE
               \o SPACE \o bool_to_string(input.task[1].complete) \o SPACE
               \o PIPE \o SPACE \o to_rfc3339(input.task[1].deadline)
               \o SPACE \o PIPE
    /\ (/\ GivenLine /\ Decoded /\ DecodeResult.ok
        /\ AllBlank(Field(input.line[1], 2))) =>
           DecodeResult.val.tags = None

\* a line whose tags field holds only commas and blanks was decoded to a task
C5_Witness ==
    /\ GivenLine /\ Decoded /\ DecodeResult.ok
    /\ Field(input.line[1], 2) # <<>>
    /\ AllBlank(Field(input.line[1], 2))
    /\ DecodeResult.val.tags = None

-----------------------------------------------------------------------------
(* Properties of the store, checked under SpecStore and Spec *)

\* the last operation was complete_task or delete_task on an existing file:
\* the two operations that load and then rewrite
Rewrote == last.op \in {"complete", "delete"} /\ last.before # None

\* the lines of the file the last operation started from
LinesBefore == lines(last.before[1])

IsBlank(line) == \A i \in 1..Len(line) : IsWhite(line[i])

\* what becomes of each line, in file order: the task from_str makes of it,
\* or why there is none (the line is unreadable, or from_str rejects it)
RECURSIVE DecodeEach(_)
DecodeEach(ls) ==
    IF ls = <<>> THEN <<>>
    ELSE <<IF is_ok_line(Head(ls)) THEN from_str(Head(ls))
           ELSE [ok |-> FALSE, err |-> "Unreadable"]>>
         \o DecodeEach(Tail(ls))

AllDecode(dec) == \A i \in 1..Len(dec) : dec[i].ok

\* the tasks of lines that all decode
RECURSIVE TasksOf(_)
TasksOf(dec) ==
    IF dec = <<>> THEN <<>> ELSE <<Head(dec).val>> \o TasksOf(Tail(dec))

\* the place the i-th task has behind every task of an earlier deadline and
\* every earlier task of the same deadline
Rank(tasks, i) ==
    1 + Cardinality({j \in 1..Len(tasks) :
                        \/ tasks[j].deadline < tasks[i].deadline
                        \/ /\ tasks[j].deadline = tasks[i].deadline
                           /\ j < i})

\* sorted is tasks ordered by ascending deadline, ties in the order of tasks
IsStableSortOf(sorted, tasks) ==
    /\ Len(sorted) = Len(tasks)
    /\ \A i \in 1..Len(tasks) : sorted[Rank(tasks, i)] = tasks[i]

\* C6: on a file whose lines all decode, Load returns the decoded tasks
\* ordered by ascending deadline, tasks of equal deadline in file order
\* (a load that fails has met a line that does not decode).
C6_StableSort ==
    Rewrote =>
        \A ls \in {LinesBefore} :
            IF last.result = "Ok"
            THEN \A dec \in {DecodeEach(ls)} :
                     AllDecode(dec) =>
                         \A tasks \in {TasksOf(dec)} :
                             IsStableSortOf(last.loaded[1], tasks)
            ELSE \E i \in 1..Len(ls) :
                     ~is_ok_line(ls[i]) \/ ~from_str(ls[i]).ok

\* a file was loaded in which a later line has an earlier deadline and two
\* different tasks share a deadline
C6_Witness ==
    /\ Rewrote /\ last.result = "Ok"
    /\ \E dec \in {DecodeEach(LinesBefore)} :
          /\ AllDecode(dec)
          /\ \E i, j \in 1..Len(dec) :
                i < j /\ dec[i].val.deadline > dec[j].val.deadline
          /\ \E i, j \in 1..Len(dec) :
                /\ i < j
                /\ dec[i].val.deadline = dec[j].val.deadline
                /\ dec[i].val # dec[j].val

\* C7: a line that does not decode, anywhere in the file, fails
\* complete_task and delete_task and leaves the file as it was; when the
\* first such line is readable the error is that line's decode error.
C7_MalformedLineFails ==
    Rewrote =>
        \A ls \in {LinesBefore} : \A dec \in {DecodeEach(ls)} :
            ~AllDecode(dec) =>
                LET k == Min({i \in 1..Len(dec) : ~dec[i].ok})
                IN  /\ last.result # "Ok"
                    /\ file = last.before
                    /\ is_ok_line(ls[k]) =>
                           /\ last.result = "InvalidTask"
                           /\ last.err = dec[k].err

\* C8 as stated: blank lines are passed over: when every line that is not
\* blank decodes, the load succeeds with the tasks of the non-blank lines.
C8_BlankLinesSkipped ==
    Rewrote =>
        \A dec \in {DecodeEach(SelectSeq(LinesBefore,
                                         LAMBDA l : ~IsBlank(l)))} :
            AllDecode(dec) =>
                /\ last.result = "Ok"
                /\ \A tasks \in {TasksOf(dec)} :
                       IsStableSortOf(last.loaded[1], tasks)

\* C8 amended: Load decodes every line, blank ones too: when the first line
\* that is not a task line is empty or whitespace-only, the load fails with
\* InvalidTaskFormat and the file is left as it was.
C8_BlankLineRejected ==
    Rewrote =>
        \A ls \in {LinesBefore} :
            (\E k \in 1..Len(ls) :
                /\ IsBlank(ls[k])
                /\ \A j \in 1..(k - 1) :
                       is_ok_line(ls[j]) /\ from_str(ls[j]).ok)
            => /\ last.result = "InvalidTask"
               /\ last.err = "InvalidTaskFormat"
               /\ file = last.before

\* a file with a blank line after a task line was loaded and rejected
C8_Witness ==
    /\ Rewrote
    /\ \E ls \in {LinesBefore} :
          /\ Len(ls) >= 2
          /\ is_ok_line(ls[1]) /\ from_str(ls[1]).ok
          /\ IsBlank(ls[2])
    /\ last.result = "InvalidTask"

\* C9: when the backing file does not exist, list_task, complete_task and
\* delete_task create an empty file and succeed, and add_task creates the
\* file holding the one line.
C9_FirstRunCreates ==
    /\ (last.op \in {"list", "complete", "delete"} /\ last.before = None) =>
           (last.result = "Ok" /\ file = Some(<<>>))
    /\ (last.op = "add" /\ last.before = None) =>
           /\ last.result = "Ok"
           /\ file = Some(to_string(last.task[1]) \o NEWLINE)

\* C10: after add_task the file is the prior content, byte for byte,
\* followed by the task's encoded line and one newline.
C10_AppendOnly ==
    last.op = "add" =>
        LET prior   == IF last.before = None THEN <<>> ELSE last.before[1]
            line    == to_string(Task_new(last.task[1].name,
                                          last.task[1].tags,
                                          last.task[1].deadline))
            content == file[1]
        IN  /\ last.result = "Ok"
            /\ file # None
            /\ Len(content) = Len(prior) + Len(line) + 1
            /\ SubSeq(content, 1, Len(prior)) = prior
            /\ SubSeq(content, Len(prior) + 1, Len(content) - 1) = line
            /\ content[Len(content)] = "\n"

\* a task with the earliest deadline was added to a file that holds a later
\* task and does not end in a newline
C10_Witness ==
    /\ last.op = "add"
    /\ last.before = Some(to_string(V1))
    /\ last.task[1].deadline = 0
    /\ last.result = "Ok"

-----------------------------------------------------------------------------
(* Properties of add, complete and delete on the loaded collection *)

\* what a load of the given file content returns
LoadOf(content) ==
    IF content = None THEN [ok |-> FALSE, err |-> "NotFound"]
    ELSE read_tasks_from_file(content[1])

\* how often task t occurs in tasks
Count(tasks, t) == Cardinality({i \in 1..Len(tasks) : tasks[i] = t})

\* C11: when the file loads before add_task(name, tags, deadline), it loads
\* after it, and holds every task loaded before plus exactly one new task
\* with the given name, tags and deadline and complete = false.
C11_AddKeepsRows ==
    (last.op = "add" /\ last.result = "Ok") =>
        \A before \in {LoadOf(last.before)} : \A after \in {LoadOf(file)} :
            before.ok =>
                /\ after.ok
                /\ Len(after.val) = Len(before.val) + 1
                /\ Count(after.val, last.task[1])
                       = Count(before.val, last.task[1]) + 1
                /\ \A i \in 1..Len(before.val) :
                       before.val[i] # last.task[1] =>
                           Count(after.val, before.val[i])
                               = Count(before.val, before.val[i])

\* the positions of the tasks that are not complete
IncompleteSet(tasks) == {i \in 1..Len(tasks) : ~tasks[i].complete}

\* the position of the incomplete task that has id incomplete tasks before it
NthIncomplete(tasks, id) ==
    CHOOSE k \in IncompleteSet(tasks) :
        Cardinality({j \in IncompleteSet(tasks) : j < k}) = id

\* C12: complete_task with an index below the number of incomplete tasks
\* writes back the loaded collection with complete = true on the task at
\* that index among the incomplete ones, every other task, the number and
\* the order of tasks unchanged.
C12_CompleteNth ==
    (last.op = "complete" /\ last.result = "Ok") =>
        \A L \in {last.loaded[1]} : \A S \in {last.stored[1]} :
            last.id < Cardinality(IncompleteSet(L)) =>
                /\ Len(S) = Len(L)
                /\ \A i \in 1..Len(L) :
                       S[i] = IF i = NthIncomplete(L, last.id)
                              THEN [L[i] EXCEPT !.complete = TRUE]
                              ELSE L[i]

\* the second incomplete task was completed, in a collection where a
\* complete task stands before it
C12_Witness ==
    /\ last.op = "complete" /\ last.result = "Ok"
    /\ last.id = 1
    /\ \E k \in 3..Len(last.loaded[1]) :
          /\ \E j \in 1..(k - 1) : last.loaded[1][j].complete
          /\ ~last.loaded[1][k].complete
          /\ last.stored[1][k].complete
          /\ Cardinality({j \in 1..(k - 1) : ~last.loaded[1][j].complete}) = 1

\* tasks without the task at position k
Without(tasks, k) ==
    [i \in 1..(Len(tasks) - 1) |-> IF i < k THEN tasks[i] ELSE tasks[i + 1]]

\* C13: delete_task with an in-range index removes exactly the task
\* complete_task_logic marks for that index, an incomplete one; the other
\* tasks stay, unchanged and in order.
C13_DeleteMirrorsComplete ==
    (last.op = "delete" /\ last.result = "Ok") =>
        \A L \in {last.loaded[1]} : \A S \in {last.stored[1]} :
            last.id < Cardinality(IncompleteSet(L)) =>
                \E k \in 1..Len(L) :
                    /\ ~L[k].complete
                    /\ \A M \in {complete_task_logic(L, last.id)} :
                           \A i \in 1..Len(L) : (M[i] # L[i]) <=> (i = k)
                    /\ Len(S) = Len(L) - 1
                    /\ \A i \in 1..Len(S) : S[i] = Without(L, k)[i]

\* the first incomplete task was deleted from a collection that starts with
\* a complete task, which stays
C13_Witness ==
    /\ last.op = "delete" /\ last.result = "Ok"
    /\ \E L \in {last.loaded[1]} :
          /\ Len(L) >= 2
          /\ L[1].complete /\ ~L[2].complete
          /\ last.id = 0
          /\ Len(last.stored[1]) = Len(L) - 1
          /\ last.stored[1][1] = L[1]

\* C14: with an index at or past the number of incomplete tasks,
\* complete_task_logic and delete_task_logic leave the collection as it
\* was loaded (same tasks, fields and order) and the operation succeeds.
C14_BadIndexKeepsCollection ==
    (last.op \in {"complete", "delete"} /\ last.loaded # None) =>
        \A L \in {last.loaded[1]} :
            last.id >= Cardinality(IncompleteSet(L)) =>
                /\ last.result = "Ok"
                /\ last.stored # None
                /\ Len(last.stored[1]) = Len(L)
                /\ \A i \in 1..Len(L) : last.stored[1][i] = L[i]

\* complete_task or delete_task got an index past the end of a collection
\* that holds an incomplete task
C14_Witness ==
    /\ last.op \in {"complete", "delete"} /\ last.loaded # None
    /\ IncompleteSet(last.loaded[1]) # {}
    /\ last.id >= Cardinality(IncompleteSet(last.loaded[1]))
    /\ last.stored = last.loaded

\* C15: complete_task or delete_task with an out-of-range index on a file
\* that loads succeeds and leaves the file content exactly as it was.
C15_BadIndexKeepsFile ==
    (last.op \in {"complete", "delete"} /\ last.loaded # None) =>
        (last.id >= Cardinality(IncompleteSet(last.loaded[1])) =>
            /\ last.result = "Ok"
            /\ file = last.before)

-----------------------------------------------------------------------------
(* Properties of list_task, checked under SpecList *)

\* list_task printed its table (the argument `incomplete` is the show-all
\* flag: true lists every task)
Listed == last.op = "list" /\ last.result = "Ok"

\* C16: without the show-all flag only incomplete tasks are listed, and
\* with the overdue filter every listed task has a deadline that is not
\* after the clock as read at its row and is not complete, whatever the
\* show-all flag is.
C16_StateFilter ==
    Listed =>
        /\ ~last.args[1].incomplete =>
               \A i \in 1..Len(last.rows) : ~last.rows[i].task.complete
        /\ last.args[1].overdue =>
               \A i \in 1..Len(last.rows) :
                   /\ last.rows[i].task.deadline
                          <= last.args[1].clock[last.rows[i].id + 1]
                   /\ ~last.rows[i].task.complete

\* whether the task carries every requested tag
HasEveryTag(task, requested) ==
    \A k \in 1..Len(requested) :
        /\ task.tags # None
        /\ \E j \in 1..Len(task.tags[1]) : task.tags[1][j] = requested[k]

\* C17: with a tag filter, in the show-all and in the incomplete-only
\* listing alike, every listed task carries every requested tag (a task
\* without tags is never listed when a tag is requested), and without the
\* overdue filter every candidate task that carries them all is listed.
C17_TagFilter ==
    (Listed /\ last.args[1].tags # None) =>
        \A requested \in {last.args[1].tags[1]} :
            /\ \A i \in 1..Len(last.rows) :
                   HasEveryTag(last.rows[i].task, requested)
            /\ ~last.args[1].overdue =>
                   \A n \in 1..Len(last.loaded[1]) :
                       \A t \in {last.loaded[1][n]} :
                           (/\ last.args[1].incomplete \/ ~t.complete
                            /\ HasEveryTag(t, requested))
                           => \E i \in 1..Len(last.rows) :
                                  last.rows[i].task = t

\* two tags were requested; a task with both is listed, a task with one of
\* them and a task without tags are not
C17_Witness ==
    /\ Listed
    /\ last.args[1].tags = Some(<<TAG_X, TAG_Y>>)
    /\ \E i \in 1..Len(last.rows) :
          last.rows[i].task.tags = Some(<<TAG_X, TAG_Y>>)
    /\ \E n \in 1..Len(last.loaded[1]) :
          /\ last.loaded[1][n].tags = Some(<<TAG_X>>)
          /\ \A i \in 1..Len(last.rows) :
                 last.rows[i].task # last.loaded[1][n]

\* C18: for every collection list_task loads and has a task to list of,
\* the widths it computes for the Id, Name and Tags columns are at least
\* the length of the column's header and of every value of the column, so
\* no padding length it computes is negative.
C18_WidthsCoverColumns ==
    (last.op = "list" /\ last.loaded # None) =>
        \A tasks \in {listed_tasks(last.loaded[1],
                                   last.args[1].incomplete)} :
            tasks # <<>> =>
                /\ ~last.layout.panic
                /\ last.layout.id >= Len(ID_HEADER)
                /\ last.layout.name >= Len(NAME_HEADER)
                /\ last.layout.tags >= Len(TAGS_HEADER)
                /\ \A i \in 1..Len(tasks) :
                       /\ last.layout.id >= id_length(i - 1)
                       /\ last.layout.name >= Len(tasks[i].name)
                       /\ last.layout.tags >= Len(tags_display(tasks[i]))

-----------------------------------------------------------------------------
(* Read failures and concurrent runs *)

\* the load of the last operation reached a line whose read fails: every
\* line before the first unreadable one decodes
ReadFailed ==
    /\ last.op \in {"list", "complete", "delete"}
    /\ last.before # None
    /\ \E ls \in {lines(last.before[1])} :
          \E k \in 1..Len(ls) :
              /\ ~is_ok_line(ls[k])
              /\ \A j \in 1..(k - 1) : is_ok_line(ls[j]) /\ from_str(ls[j]).ok

\* C19: when reading a line of the file fails during a load, the operation
\* returns the IO error, and complete_task / delete_task leave the file as
\* it was.
C19_ReadErrorPropagates ==
    ReadFailed => (last.result = "IO" /\ file = last.before)

\* process p finished its rewrite, and process q made its write to the file
\* after p had loaded it and before p opened it again with truncate
WroteInBetween(p, q) ==
    /\ p # q
    /\ procs[p].op \in {"complete", "delete"}
    /\ procs[p].pc = "done" /\ procs[p].wroteAt > 0
    /\ procs[q].pc = "done"
    /\ procs[q].wroteAt > procs[p].loadedAt
    /\ procs[q].wroteAt < procs[p].truncatedAt

\* the collection process p writes back, from what it loaded
Rewritten(p) ==
    IF procs[p].op = "complete"
    THEN complete_task_logic(procs[p].tasks[1], procs[p].id)
    ELSE delete_task_logic(procs[p].tasks[1], procs[p].id)

\* C20: with two processes and no lock, whenever one process writes between
\* the load of the other's complete_task / delete_task and its truncating
\* open, both operations return success and the file holds only what the
\* rewriting process made of the collection it had loaded: the write in
\* between is discarded.
C20_LostUpdate ==
    \A p \in Proc : \A q \in Proc :
        WroteInBetween(p, q) =>
            /\ procs[p].result = "Ok"
            /\ procs[q].result = "Ok"
            /\ file = Some(write_tasks_to_file(Rewritten(p)))
            /\ Len(lines(file[1])) = Len(Rewritten(p))

\* an add_task fell between the load and the truncating open of the other
\* process and the line it appended is no longer in the file
C20_Witness ==
    \E p \in Proc : \E q \in Proc :
        /\ WroteInBetween(p, q)
        /\ procs[q].op = "add"
        /\ procs[p].result = "Ok" /\ procs[q].result = "Ok"
        /\ \E ls \in {lines(file[1])} :
              \A i \in 1..Len(ls) : ls[i] # to_string(procs[q].task[1])

-----------------------------------------------------------------------------
(* Properties of the legacy DataBase, checked under SpecLegacy *)

AddedItem == database.call.op = "add_item"

LargestId(items) ==
    CHOOSE m \in item_ids(items) : \A x \in item_ids(items) : u32_le(x, m)

\* the id one above the largest id of the items, where there is one
IdAfter(items) ==
    IF items = <<>> THEN Some(U32_ZERO) ELSE checked_add_one(LargestId(items))

\* C21: add_item returns having appended one item, with complete = false
\* and id = (largest existing id) + 1, or 0 on an empty DataBase, and leaves
\* the existing items as they were; and in a DataBase that started empty all
\* item ids are pairwise distinct after any sequence of calls.
C21_FreshIds ==
    /\ AddedItem =>
          /\ database.call.result = "Ok"
          /\ IdAfter(database.call.before) # None
          /\ database.items =
                 Append(database.call.before,
                        Item_new(IdAfter(database.call.before)[1],
                                 database.call.project,
                                 database.call.description, FALSE))
    /\ database.loaded = <<>> =>
          Cardinality(item_ids(database.items)) = Len(database.items)

\* the operation ran on the store and returned Ok
Succeeded ==
    last.op \in {"add", "complete", "delete"} /\ last.result = "Ok"

\* the lines of a file, None standing for no file
LinesIn(content) == IF content = None THEN <<>> ELSE lines(content[1])

\* how many lines of the file decode to the complete task t
CompleteCount(dec, t) ==
    Cardinality({i \in 1..Len(dec) : dec[i].ok /\ dec[i].val = t})

\* C22: completion is monotonic: after every successful add_task,
\* complete_task or delete_task, each task that was complete in the file
\* before the operation is still in the file and still complete, as often
\* as before, so the number of completed tasks in the file never decreases.
C22_CompletionMonotonic ==
    Succeeded =>
        \A before \in {DecodeEach(LinesIn(last.before))},
           after \in {DecodeEach(LinesIn(file))} :
            \A i \in 1..Len(before) :
                before[i].ok /\ before[i].val.complete =>
                    CompleteCount(after, before[i].val)
                        >= CompleteCount(before, before[i].val)

\* the listing ran, printed the Id column and did not panic
ListedIds == Listed /\ ~last.args[1].incomplete

\* C23: the Id printed by the incomplete-only listing is the index that
\* complete_task and delete_task use: each printed row shows, next to its
\* task, the number of incomplete tasks before that task in the loaded
\* (deadline-sorted) collection, whatever rows the overdue or tag filter
\* hides; complete_task_logic with that number changes exactly that task
\* and delete_task_logic with it removes exactly that task.
C23_IdIsIndex ==
    ListedIds =>
        \A L \in {last.loaded[1]} :
            \A r \in 1..Len(last.rows) :
                \A id \in {last.rows[r].id} :
                    /\ id < Cardinality(IncompleteSet(L))
                    /\ \A k \in {NthIncomplete(L, id)} :
                          /\ L[k] = last.rows[r].task
                          /\ \A r2 \in 1..(r - 1) :
                                 NthIncomplete(L, last.rows[r2].id) < k
                          /\ complete_task_logic(L, id) =
                                 [L EXCEPT ![k].complete = TRUE]
                          /\ delete_task_logic(L, id) = Without(L, k)

\* a listing whose first printed row has Id 1, the incomplete task of Id 0
\* being hidden by the tag filter; complete_task_logic with 1 marks the
\* task of that row
C23_Witness ==
    /\ ListedIds
    /\ last.args[1].tags # None
    /\ Len(last.rows) >= 1
    /\ last.rows[1].id = 1
    /\ \E k \in 2..Len(last.loaded[1]) :
          /\ last.loaded[1][k] = last.rows[1].task
          /\ complete_task_logic(last.loaded[1], 1)[k].complete

\* C24: list_task never panics on a file that loads: for every loaded
\* collection, an empty one and (with incomplete = false) one whose tasks
\* are all complete included, it returns Ok, having printed one row per
\* task that passes the filters.
C24_ListNeverPanics ==
    (last.op = "list" /\ last.loaded # None) =>
        /\ last.result = "Ok"
        /\ \A tasks \in {listed_tasks(last.loaded[1],
                                      last.args[1].incomplete)} :
               Len(last.rows) =
                   Cardinality({i \in 1..Len(tasks) :
                                   ~skipped(tasks[i], last.args[1].overdue,
                                            last.args[1].tags,
                                            last.args[1].clock[i])})

\* complete_task or delete_task returned Ok, having rewritten the file
Rewritten_Ok == last.op \in {"complete", "delete"} /\ last.result = "Ok"

Ascending(tasks) ==
    \A i \in 1..Len(tasks) : \A j \in i..Len(tasks) :
        tasks[i].deadline <= tasks[j].deadline

\* C25: after every successful complete_task or delete_task, whatever the
\* index, the file holds exactly one encoded line per task of the resulting
\* collection, each terminated by a newline, in ascending deadline order:
\* every line decodes, the decoded tasks in file order are the resulting
\* collection, and Load of the file returns that same sequence.
C25_RewriteCanonical ==
    Rewritten_Ok =>
        /\ file # None
        /\ file[1] = <<>> \/ file[1][Len(file[1])] = NEWLINE[1]
        /\ \A ls \in {lines(file[1])} :
               /\ Len(ls) = Len(last.stored[1])
               /\ \A i \in 1..Len(ls) : ls[i] = to_string(last.stored[1][i])
               /\ \A dec \in {DecodeEach(ls)} :
                      /\ AllDecode(dec)
                      /\ TasksOf(dec) = last.stored[1]
                      /\ Ascending(TasksOf(dec))
                      /\ LoadOf(file) = [ok |-> TRUE, val |-> TasksOf(dec)]

\* a file whose lines were out of deadline order has been rewritten by
\* complete_task or delete_task and now holds its lines in deadline order
C25_Witness ==
    /\ Rewritten_Ok
    /\ \E dec \in {DecodeEach(LinesBefore)} :
          /\ AllDecode(dec)
          /\ ~Ascending(TasksOf(dec))
    /\ Len(last.stored[1]) >= 2
    /\ \E dec \in {DecodeEach(lines(file[1]))} :
          /\ AllDecode(dec)
          /\ Ascending(TasksOf(dec))

====
